---- MODULE Spec2Model ----
(***************************************************************************)
(* Heart-risk prediction service (src/heart_risk_api/main.py).             *)
(*                                                                         *)
(* The module-level model load, the GET handler read_root and the POST     *)
(* handler predict_from_form are modelled as a state machine.  Strings the *)
(* code inspects character by character (the upload's filename) are        *)
(* sequences of one-character strings.  An uploaded file's content is      *)
(* either bytes that are not UTF-8, text pandas cannot parse, or a table:  *)
(* a header and rows of raw cells, which read_csv turns into typed columns.*)
(* A Python dict is a sequence of <<key, value>> entries in insertion      *)
(* order.  Floats the model returns are integers counting thousandths.     *)
(***************************************************************************)
EXTENDS Integers, Sequences, FiniteSets, TLC

\* ------------------------------------------------------------------ bounds
MaxRows == 2
NReq == 2

\* --------------------------------------------------------- program values
\* The literal suffix tested by predict_from_form.
CsvSuffix == <<".", "c", "s", "v">>

\* Feature names read from the artifact (model.feature_name_), as in the
\* scenario of a model trained on two columns.
ArtifactFeatures == <<"age", "cholesterol">>

\* The entries of FEATURE_DESCRIPTIONS for those features.
FEATURE_DESCRIPTIONS == [age |-> "age (normalised 0..1)",
                         cholesterol |-> "cholesterol (normalised 0..1)"]

\* Messages placed in the "error" field of the page context.
ErrInvalidFormat == "invalid file format"
ErrMissingId == "missing id column"
ErrException(e) == "exception: " \o e

\* ------------------------------------------------------------ input space
\* file.filename is Optional[str]: none = TRUE stands for None.
NoName == [none |-> TRUE, s |-> <<>>]
Name(s) == [none |-> FALSE, s |-> s]
Filenames ==
  { Name(<<"d", ".", "c", "s", "v">>),
    Name(<<"d", ".", "C", "S", "V">>),
    Name(<<"d", ".", "c", "s", "v", ".", "t", "x", "t">>),
    Name(<<"c", "s", "v">>),
    Name(<<>>),
    NoName }

\* Raw cells of the id column and of the feature columns.
IdCells == {"1", "2", "", "a"}
FeatCells == {"0", "1"}
FeatVals == {0, 1}

\* Header rows of uploaded tables.
Headers ==
  { <<"id", "age", "cholesterol">>,
    <<"age", "id", "cholesterol">>,
    <<"age", "cholesterol">>,
    <<"ID", "age", "cholesterol">>,
    <<"id", "age">>,
    <<"id", "age", "cholesterol", "extra">>,
    <<"id", "age", "extra">> }

\* A data row: the cell under the id column (if any) and the cell repeated
\* under every other column.
RowSet == [id : IdCells, x : FeatCells]
RowSeqs(n) == UNION { [1..k -> RowSet] : k \in 0..n }

Tables(n) == [kind : {"table"}, header : Headers, rows : RowSeqs(n)]
BadContents ==
  { [kind |-> "bad_utf8", header |-> <<>>, rows |-> <<>>],
    [kind |-> "bad_csv", header |-> <<>>, rows |-> <<>>] }
Contents(n) == Tables(n) \cup BadContents
Uploads(n) == [filename : Filenames, content : Contents(n)]

\* Floats a model can return, in thousandths.  The handler passes them on as
\* they come; their range is a property of the artifact, not of this code.
PredValues == {250, 750}

\* What joblib.load finds on disk.
Artifacts ==
  [kind : {"ok"}, f : [FeatVals -> PredValues]] \cup
  { [kind |-> k, f |-> [v \in FeatVals |-> 250]] :
      k \in {"missing", "malformed", "no_feature_name"} }

\* ------------------------------------------------------- pure operations
\* str.endswith(suffix)
EndsWith(s, suffix) ==
  /\ Len(s) >= Len(suffix)
  /\ SubSeq(s, Len(s) - Len(suffix) + 1, Len(s)) = suffix

\* A test that accepts '.csv' anywhere in the name.
FilenameCheckContains(filename) ==
  IF filename.none THEN "raise"
  ELSE IF \E i \in 1..Len(filename.s) :
            /\ i + Len(CsvSuffix) - 1 <= Len(filename.s)
            /\ SubSeq(filename.s, i, i + Len(CsvSuffix) - 1) = CsvSuffix
       THEN "ok" ELSE "bad"

\* The filename test of predict_from_form: "ok" (ends in '.csv'), "bad", or
\* "raise" when filename is None and has no endswith attribute.
FilenameCheck(filename) ==
  IF filename.none THEN "raise"
  ELSE IF EndsWith(filename.s, CsvSuffix) THEN "ok" ELSE "bad"

\* --- pandas.read_csv: typing of a column of raw cells
Digits == 0..9
IsIntCell(c) == \E n \in Digits : ToString(n) = c
IsFloatCell(c) == \E n \in Digits : ToString(n) \o ".0" = c
IsNumCell(c) == IsIntCell(c) \/ IsFloatCell(c)
NumOf(c) == CHOOSE n \in Digits : ToString(n) = c \/ ToString(n) \o ".0" = c

\* Values of a column as Python objects.  t is the Python type; n the number
\* (for a NaN: the row it came from, since every NaN cell becomes a float
\* object of its own and NaN is unequal to every other object); s the text.
IntObj(n) == [t |-> "int", n |-> n, s |-> ""]
FloatObj(n) == [t |-> "float", n |-> n, s |-> ""]
NanObj(i) == [t |-> "nan", n |-> i, s |-> ""]
StrObj(c) == [t |-> "str", n |-> 0, s |-> c]

\* int64 when every cell is an integer; float64 when every cell is a number
\* or empty (empty gives NaN); otherwise object, the cells kept as text.
ColumnDtype(cells) ==
  IF cells # <<>> /\ \A i \in 1..Len(cells) : IsIntCell(cells[i]) THEN "int64"
  ELSE IF cells # <<>> /\ \A i \in 1..Len(cells) : IsNumCell(cells[i]) \/ cells[i] = ""
       THEN "float64"
  ELSE "object"

ParseColumn(cells) ==
  LET dt == ColumnDtype(cells) IN
  [i \in 1..Len(cells) |->
     IF cells[i] = "" THEN NanObj(i)
     ELSE IF dt = "int64" THEN IntObj(NumOf(cells[i]))
     ELSE IF dt = "float64" THEN FloatObj(NumOf(cells[i]))
     ELSE StrObj(cells[i])]

\* The raw cell of a row under a column.
CellAt(row, col) == IF col = "id" THEN row.id ELSE row.x

\* contents.decode('utf-8') followed by pd.read_csv: the exception raised, or
\* "" and the parsed frame.
DecodeAndParse(content) ==
  IF content.kind = "bad_utf8" THEN [exc |-> "UnicodeDecodeError", columns |-> <<>>, rows |-> <<>>]
  ELSE IF content.kind = "bad_csv" THEN [exc |-> "ParserError", columns |-> <<>>, rows |-> <<>>]
  ELSE [exc |-> "", columns |-> content.header, rows |-> content.rows]

\* A column test that ignores case.
HasIdColumnAnyCase(columns) == \E i \in 1..Len(columns) : columns[i] \in {"id", "ID"}

\* 'id' in data_to_predict.columns
HasIdColumn(columns) == \E i \in 1..Len(columns) : columns[i] = "id"

\* data_to_predict['id'], iterated: the identifier objects in row order.
IdSeries(frame) == ParseColumn([i \in 1..Len(frame.rows) |-> frame.rows[i].id])

\* data_to_predict.drop('id', axis=1): the remaining column names.
DropId(columns) == SelectSeq(columns, LAMBDA c : c # "id")

\* model.predict on the feature frame.  LightGBM's scikit-learn wrapper rejects
\* a frame whose number of columns differs from the number of features it was
\* trained on, and an empty frame; it never looks at the column names.
PredictRaises(m, columns, rows) ==
  \/ Len(columns) # Len(m.feature_name_)
  \/ rows = <<>>
PredictValues(m, columns, rows) ==
  [i \in 1..Len(rows) |-> m.f[NumOf(CellAt(rows[i], columns[1]))]]

\* --- dict(zip(ids, predictions))
\* Python key equality: numbers by value, strings by text, a NaN only with
\* itself.
KeyEq(a, b) ==
  \/ a.t \in {"int", "float"} /\ b.t \in {"int", "float"} /\ a.n = b.n
  \/ a.t = "str" /\ b.t = "str" /\ a.s = b.s
  \/ a.t = "nan" /\ b.t = "nan" /\ a.n = b.n

\* An insertion that keeps the value already stored under the key.
DictSetKeepFirst(d, k, v) ==
  IF \E i \in 1..Len(d) : KeyEq(d[i][1], k) THEN d ELSE Append(d, <<k, v>>)

\* d[k] = v: an existing key keeps its place and takes the new value.
DictSet(d, k, v) ==
  IF \E i \in 1..Len(d) : KeyEq(d[i][1], k)
  THEN [i \in 1..Len(d) |-> IF KeyEq(d[i][1], k) THEN <<d[i][1], v>> ELSE d[i]]
  ELSE Append(d, <<k, v>>)

RECURSIVE DictZipUpTo(_, _, _)
DictZipUpTo(ids, preds, n) ==
  IF n = 0 THEN <<>>
  ELSE DictSet(DictZipUpTo(ids, preds, n - 1), ids[n], preds[n])
DictZip(ids, preds) ==
  DictZipUpTo(ids, preds, IF Len(ids) < Len(preds) THEN Len(ids) ELSE Len(preds))

\* --- json.dumps(result_dict, indent=4)
\* Text of a float value.
FloatRepr(v) == ToString(v)
ParseFloat(txt) == CHOOSE v \in PredValues : ToString(v) = txt
\* Text of a key: json.dumps turns int and float keys into their text, NaN
\* into "NaN".
JsonKey(k) ==
  IF k.t = "int" THEN ToString(k.n)
  ELSE IF k.t = "float" THEN ToString(k.n) \o ".0"
  ELSE IF k.t = "nan" THEN "NaN"
  ELSE k.s
\* The object's members in the order written.
JsonDumps(d) == [i \in 1..Len(d) |-> <<JsonKey(d[i][1]), FloatRepr(d[i][2])>>]

\* --- pd.DataFrame(list(result_dict.items())).to_csv(index=False)
CsvCell(k) ==
  IF k.t = "int" THEN ToString(k.n)
  ELSE IF k.t = "float" THEN ToString(k.n) \o ".0"
  ELSE IF k.t = "nan" THEN ""
  ELSE k.s
ToCsv(d) ==
  [header |-> <<"id", "prediction">>,
   rows |-> [i \in 1..Len(d) |-> <<CsvCell(d[i][1]), FloatRepr(d[i][2])>>]]

\* ----------------------------------------------------- template contexts
\* An error page built without the feature names.
ErrorPageNoFeatures(r, msg, feats, descs) ==
  [status |-> "page", ctx |-> [request |-> r, error |-> msg, descriptions |-> descs]]

\* What a handler hands to templates.TemplateResponse("index.html", ...), or
\* the exception that left the handler.
FormPage(r, feats, descs) ==
  [status |-> "page",
   ctx |-> [request |-> r, features |-> feats, descriptions |-> descs]]
ErrorPage(r, msg, feats, descs) ==
  [status |-> "page",
   ctx |-> [request |-> r, error |-> msg, features |-> feats, descriptions |-> descs]]
ResultPage(r, d, feats, descs) ==
  [status |-> "page",
   ctx |-> [request |-> r, results |-> d, results_json |-> JsonDumps(d),
            results_csv |-> ToCsv(d), features |-> feats, descriptions |-> descs]]
Raised(e) == [status |-> "raised", ctx |-> [exception |-> e]]
NoResponse == [status |-> "none", ctx |-> [none |-> TRUE]]

\* The try block of predict_from_form once file.read() has returned: the
\* response, and whether model.predict was called.
TryBlock(r, m, feats, descs, content) ==
  LET frame == DecodeAndParse(content) IN
  IF frame.exc # ""
  THEN [invoked |-> FALSE, resp |-> ErrorPage(r, ErrException(frame.exc), feats, descs)]
  ELSE IF ~HasIdColumn(frame.columns)
  THEN [invoked |-> FALSE, resp |-> ErrorPage(r, ErrMissingId, feats, descs)]
  ELSE LET ids == IdSeries(frame)
           cols == DropId(frame.columns)
       IN IF PredictRaises(m, cols, frame.rows)
          THEN [invoked |-> TRUE,
                resp |-> ErrorPage(r, ErrException("ValueError"), feats, descs)]
          ELSE LET predictions == PredictValues(m, cols, frame.rows)
                   result_dict == DictZip(ids, predictions)
               IN [invoked |-> TRUE, resp |-> ResultPage(r, result_dict, feats, descs)]

\* ------------------------------------------------------------------ state
VARIABLES
  phase,           \* "boot" while the module is imported, then "serving" or "failed"
  artifact,        \* the file lgbm_final_model.joblib as found on disk
  model,           \* the module-level name model
  model_features,  \* the module-level name model_features
  descriptions,    \* the module-level dict FEATURE_DESCRIPTIONS
  loads,           \* number of joblib.load calls so far
  req              \* the requests in flight, one slot each

vars == <<phase, artifact, model, model_features, descriptions, loads, req>>

Req == 1..NReq

Unbound == [kind |-> "unbound", f |-> [v \in FeatVals |-> 250], feature_name_ |-> <<>>]
NoDescriptions == [unbound |-> TRUE]
NoUpload == [filename |-> NoName, content |-> [kind |-> "none", header |-> <<>>, rows |-> <<>>]]
Idle ==
  [pc |-> "idle", method |-> "", upload |-> NoUpload, read |-> FALSE,
   invoked |-> FALSE, resp |-> NoResponse]

Init ==
  /\ phase = "boot"
  /\ artifact \in Artifacts
  /\ model = Unbound
  /\ model_features = <<>>
  /\ descriptions = NoDescriptions
  /\ loads = 0
  /\ req = [r \in Req |-> Idle]

\* A load that only fails on a missing file.
LoadFailsMissingOnly(a) == a.kind = "missing"

\* Import of the module: joblib.load, then model.feature_name_, then the
\* definition of FEATURE_DESCRIPTIONS and of the routes.  A failure of the
\* first two raises RuntimeError out of the import.
LoadFails(a) == a.kind # "ok"
Startup ==
  /\ phase = "boot"
  /\ loads' = loads + 1
  /\ IF LoadFails(artifact)
     THEN /\ phase' = "failed"
          /\ model' = IF artifact.kind = "no_feature_name"
                      THEN [kind |-> "no_feature_name", f |-> artifact.f, feature_name_ |-> <<>>]
                      ELSE model
          /\ UNCHANGED <<model_features, descriptions>>
     ELSE /\ phase' = "serving"
          /\ model' = [kind |-> "ok", f |-> artifact.f, feature_name_ |-> ArtifactFeatures]
          /\ model_features' = ArtifactFeatures
          /\ descriptions' = FEATURE_DESCRIPTIONS
  /\ UNCHANGED <<artifact, req>>

\* GET /
read_root(r) ==
  /\ phase = "serving"
  /\ req[r].pc = "idle"
  /\ req' = [req EXCEPT ![r] =
       [Idle EXCEPT !.pc = "done", !.method = "GET",
                    !.resp = FormPage(r, model_features, descriptions)]]
  /\ UNCHANGED <<phase, artifact, model, model_features, descriptions, loads>>

\* POST /, up to the await of file.read(): the filename test.
predict_from_form(r, file) ==
  /\ phase = "serving"
  /\ req[r].pc = "idle"
  /\ LET chk == FilenameCheck(file.filename)
         base == [Idle EXCEPT !.method = "POST", !.upload = file]
     IN req' = [req EXCEPT ![r] =
          IF chk = "raise"
          THEN [base EXCEPT !.pc = "done", !.resp = Raised("AttributeError")]
          ELSE IF chk = "bad"
          THEN [base EXCEPT !.pc = "done",
                  !.resp = ErrorPage(r, ErrInvalidFormat, model_features, descriptions)]
          ELSE [base EXCEPT !.pc = "reading"]]
  /\ UNCHANGED <<phase, artifact, model, model_features, descriptions, loads>>

\* A resume step that rebinds model_features to the uploaded columns.
predict_from_form_rebinding(r) ==
  /\ req[r].pc = "reading"
  /\ LET out == TryBlock(r, model, model_features, descriptions, req[r].upload.content)
     IN req' = [req EXCEPT ![r] =
          [@ EXCEPT !.pc = "done", !.read = TRUE, !.invoked = out.invoked,
                    !.resp = out.resp]]
  /\ model_features' = DropId(req[r].upload.content.header)
  /\ UNCHANGED <<phase, artifact, model, descriptions, loads>>

\* POST /, from the return of file.read() to the response.
predict_from_form_resume(r) ==
  /\ req[r].pc = "reading"
  /\ LET out == TryBlock(r, model, model_features, descriptions, req[r].upload.content)
     IN req' = [req EXCEPT ![r] =
          [@ EXCEPT !.pc = "done", !.read = TRUE, !.invoked = out.invoked,
                    !.resp = out.resp]]
  /\ UNCHANGED <<phase, artifact, model, model_features, descriptions, loads>>

\* The response is sent and the request's objects are dropped.
Respond(r) ==
  /\ req[r].pc = "done"
  /\ req' = [req EXCEPT ![r] = Idle]
  /\ UNCHANGED <<phase, artifact, model, model_features, descriptions, loads>>

\* One request at a time, every upload up to MaxRows rows.
Next ==
  \/ Startup
  \/ read_root(1)
  \/ /\ req[1].pc = "idle"
     /\ \E file \in Uploads(MaxRows) : predict_from_form(1, file)
  \/ predict_from_form_resume(1)
  \/ Respond(1)

Spec == Init /\ [][Next]_vars

\* Requests interleaved at the await, over a set of representative uploads.
CsvName == Name(<<"d", ".", "c", "s", "v">>)
Row(i, x) == [id |-> i, x |-> x]
Table(h, rows) == [kind |-> "table", header |-> h, rows |-> rows]
ConcUploads ==
  { [filename |-> CsvName,
     content |-> Table(<<"id", "age", "cholesterol">>, <<Row("1", "0"), Row("2", "1")>>)],
    [filename |-> CsvName,
     content |-> Table(<<"id", "age", "cholesterol">>, <<Row("1", "0"), Row("1", "1")>>)],
    [filename |-> CsvName,
     content |-> Table(<<"age", "cholesterol">>, <<Row("1", "1")>>)],
    [filename |-> CsvName,
     content |-> Table(<<"id", "age">>, <<Row("1", "1")>>)],
    [filename |-> CsvName,
     content |-> [kind |-> "bad_utf8", header |-> <<>>, rows |-> <<>>]],
    [filename |-> Name(<<"d", ".", "C", "S", "V">>),
     content |-> Table(<<"id", "age", "cholesterol">>, <<Row("2", "1")>>)],
    [filename |-> NoName,
     content |-> Table(<<"id", "age", "cholesterol">>, <<Row("2", "1")>>)] }

NextConc ==
  \/ Startup
  \/ \E r \in Req : read_root(r)
  \/ \E r \in Req : \E file \in ConcUploads : predict_from_form(r, file)
  \/ \E r \in Req : predict_from_form_resume(r)
  \/ \E r \in Req : Respond(r)

SpecConc == Init /\ [][NextConc]_vars

\* ------------------------------------------------------------ properties
Range(f) == { f[i] : i \in DOMAIN f }
Finished(r) == req[r].pc = "done"
FinishedPost(r) == Finished(r) /\ req[r].method = "POST"
Ctx(r) == req[r].resp.ctx
Keys(r) == DOMAIN Ctx(r)
ReturnedPage(r) == Finished(r) /\ req[r].resp.status = "page"
HasResults(r) == ReturnedPage(r) /\ "results" \in Keys(r)

\* The filename is a string whose last four characters are . c s v
NameIsCsv(fn) ==
  /\ ~fn.none
  /\ Len(fn.s) >= 4
  /\ fn.s[Len(fn.s) - 3] = "."
  /\ fn.s[Len(fn.s) - 2] = "c"
  /\ fn.s[Len(fn.s) - 1] = "s"
  /\ fn.s[Len(fn.s)] = "v"
NameIsOther(fn) == ~fn.none /\ ~NameIsCsv(fn)
IsTable(r) == req[r].upload.content.kind = "table"
Header(r) == req[r].upload.content.header
Rows(r) == req[r].upload.content.rows

\* C1: a POST whose filename is a string not ending in the lower-case suffix
\* '.csv' is answered with the form page carrying the 'invalid file format'
\* error, whatever its content, and the content is never read nor the model
\* invoked.
C1_BadExtensionRejected ==
  \A r \in Req :
    (FinishedPost(r) /\ NameIsOther(req[r].upload.filename)) =>
      /\ ReturnedPage(r)
      /\ "error" \in Keys(r)
      /\ Ctx(r).error = ErrInvalidFormat
      /\ "results" \notin Keys(r)
      /\ ~req[r].read
      /\ ~req[r].invoked

\* A valid table uploaded as d.csv.txt has been rejected.
C1_Witness ==
  \E r \in Req :
    /\ FinishedPost(r)
    /\ req[r].upload.filename = Name(<<"d", ".", "c", "s", "v", ".", "t", "x", "t">>)
    /\ IsTable(r)
    /\ Header(r) = <<"id", "age", "cholesterol">>
    /\ Len(Rows(r)) = 2
    /\ Ctx(r).error = ErrInvalidFormat

\* C2: a '.csv' upload that decodes and parses but has no column named
\* exactly 'id' is answered with the 'missing id column' error, whatever its
\* other columns, and model.predict is not called for it.
C2_MissingIdRejected ==
  \A r \in Req :
    (/\ FinishedPost(r)
     /\ NameIsCsv(req[r].upload.filename)
     /\ IsTable(r)
     /\ \A i \in 1..Len(Header(r)) : Header(r)[i] # "id") =>
      /\ ReturnedPage(r)
      /\ "error" \in Keys(r)
      /\ Ctx(r).error = ErrMissingId
      /\ "results" \notin Keys(r)
      /\ ~req[r].invoked

\* A table with the column 'ID' and every feature column has been rejected.
C2_Witness ==
  \E r \in Req :
    /\ FinishedPost(r)
    /\ NameIsCsv(req[r].upload.filename)
    /\ IsTable(r)
    /\ Header(r) = <<"ID", "age", "cholesterol">>
    /\ Len(Rows(r)) >= 1
    /\ Ctx(r).error = ErrMissingId

\* Identifier objects and model outputs of the uploaded rows, in row order.
RowIds(r) == ParseColumn([i \in 1..Len(Rows(r)) |-> Rows(r)[i].id])
RowOutput(r, i) == model.f[NumOf(Rows(r)[i].x)]
LastRow(r, k) ==
  CHOOSE i \in 1..Len(Rows(r)) :
    /\ KeyEq(RowIds(r)[i], k)
    /\ \A j \in 1..Len(Rows(r)) : KeyEq(RowIds(r)[j], k) => j <= i
FirstRow(r, k) ==
  CHOOSE i \in 1..Len(Rows(r)) :
    /\ KeyEq(RowIds(r)[i], k)
    /\ \A j \in 1..Len(Rows(r)) : KeyEq(RowIds(r)[j], k) => j >= i
ValidHeader(h) ==
  /\ \E i \in 1..Len(h) : h[i] = "id"
  /\ \A n \in Range(ArtifactFeatures) : \E i \in 1..Len(h) : h[i] = n

RECURSIVE JsonLoadsUpTo(_, _)
JsonLoadsUpTo(ms, n) ==
  IF n = 0 THEN <<>>
  ELSE LET d == JsonLoadsUpTo(ms, n - 1)
           k == ms[n][1]
           v == ParseFloat(ms[n][2])
       IN IF \E i \in 1..Len(d) : d[i][1] = k
          THEN [i \in 1..Len(d) |-> IF d[i][1] = k THEN <<k, v>> ELSE d[i]]
          ELSE Append(d, <<k, v>>)
JsonLoads(ms) == JsonLoadsUpTo(ms, Len(ms))

\* read_csv of the CSV text: the rows as <<identifier, prediction>>.
CsvLoads(csv) ==
  LET ids == ParseColumn([i \in 1..Len(csv.rows) |-> csv.rows[i][1]]) IN
  [i \in 1..Len(csv.rows) |-> <<ids[i], ParseFloat(csv.rows[i][2])>>]

\* A mapping with its keys written as JSON writes them.
ByJsonKey(d) == { <<JsonKey(e[1]), e[2]>> : e \in Range(d) }

\* C4: the three renderings of a successful predict are equivalent: the CSV
\* text (header id,prediction, one row per identifier) parses back to the
\* mapping of the JSON object, which is the mapping given to the HTML table,
\* and no two identifiers of the mapping share a key in the JSON or CSV.
C4_RenderingsEquivalent ==
  \A r \in Req :
    HasResults(r) =>
      LET d == Ctx(r).results
          J == JsonLoads(Ctx(r).results_json)
          C == CsvLoads(Ctx(r).results_csv)
      IN /\ Ctx(r).results_csv.header = <<"id", "prediction">>
         /\ Len(C) = Len(d)
         /\ Len(J) = Len(d)
         /\ Range(J) = ByJsonKey(d)
         /\ ByJsonKey(C) = Range(J)

\* C5: no POST ends in an exception leaving the handler: every finished POST
\* has returned a page, and after it the service accepts the next request.
C5_NoUncaughtException ==
  \A r \in Req : FinishedPost(r) => (ReturnedPage(r) /\ phase = "serving")

\* C6: a CSV with an 'id' column whose other columns include an extra column
\* or lack an expected feature column gets an error and no results.
C6_SchemaEnforced ==
  \A r \in Req :
    (/\ FinishedPost(r)
     /\ NameIsCsv(req[r].upload.filename)
     /\ IsTable(r)
     /\ \E i \in 1..Len(Header(r)) : Header(r)[i] = "id"
     /\ Range(Header(r)) \ {"id"} # Range(ArtifactFeatures)) =>
      /\ ReturnedPage(r)
      /\ "error" \in Keys(r)
      /\ "results" \notin Keys(r)

\* A request has reached a handler (it is being served or has been answered).
Served(r) == req[r].pc # "idle"

\* C8: the model is loaded exactly once and before any request: with an
\* artifact that is missing, malformed or without feature names the import
\* fails and no request is ever served; whenever a request is served the
\* model and its feature-name list are loaded.
C8_LoadOnceBeforeServing ==
  /\ loads <= 1
  /\ artifact.kind \in {"missing", "malformed", "no_feature_name"} =>
       /\ phase # "serving"
       /\ \A r \in Req : ~Served(r)
  /\ \A r \in Req :
       Served(r) =>
         /\ phase = "serving"
         /\ loads = 1
         /\ model.kind = "ok"
         /\ model.f = artifact.f
         /\ model_features = ArtifactFeatures
         /\ model.feature_name_ = model_features

\* The import has failed on an artifact that unpickles but has no feature
\* names.
C8_Witness ==
  /\ phase = "failed"
  /\ loads = 1
  /\ artifact.kind = "no_feature_name"
  /\ \A r \in Req : ~Served(r)

\* C9: once the service is up, no step of any request changes model,
\* model_features or FEATURE_DESCRIPTIONS; a step of one request leaves the
\* records and results of every other request alone, and a response is
\* built from its own request's upload only.
C9_SharedStateImmutable ==
  [][ phase = "serving" =>
        /\ UNCHANGED <<model, model_features, descriptions>>
        /\ \A r1, r2 \in Req :
             (r1 # r2 /\ req'[r1] # req[r1]) => req'[r2] = req[r2]
        /\ \A r \in Req :
             (req[r].pc = "done" /\ req'[r] # req[r]) => req'[r] = Idle
        /\ \A r \in Req :
             req'[r].pc = "done" =>
               /\ "features" \in DOMAIN req'[r].resp.ctx =>
                    /\ req'[r].resp.ctx.features = ArtifactFeatures
                    /\ req'[r].resp.ctx.request = r
               /\ "results" \in DOMAIN req'[r].resp.ctx =>
                    LET d == req'[r].resp.ctx.results
                        rows == req'[r].upload.content.rows
                        ids == ParseColumn([i \in 1..Len(rows) |-> rows[i].id])
                    IN \A j \in 1..Len(d) :
                         \E i \in 1..Len(rows) :
                           d[j] = <<ids[i], model.f[NumOf(rows[i].x)]>>
  ]_vars

\* One request waits for its file while another already has its results.
C9_Witness ==
  \E r1, r2 \in Req :
    /\ r1 # r2
    /\ req[r1].pc = "reading"
    /\ HasResults(r2)
    /\ req[r1].upload # req[r2].upload

\* C10: a page returned for a POST carries either 'error' and none of
\* 'results', 'results_json', 'results_csv', or all three of these and no
\* 'error'; every returned page, GET included, carries the feature names
\* and the descriptions.
ResultKeys == {"results", "results_json", "results_csv"}
C10_ExactlyOneOutcome ==
  \A r \in Req :
    ReturnedPage(r) =>
      /\ req[r].method = "POST" =>
           \/ "error" \in Keys(r) /\ Keys(r) \cap ResultKeys = {}
           \/ "error" \notin Keys(r) /\ ResultKeys \subseteq Keys(r)
      /\ {"features", "descriptions"} \subseteq Keys(r)
      /\ Ctx(r).features = ArtifactFeatures
      /\ Ctx(r).descriptions = FEATURE_DESCRIPTIONS

\* A POST stopped by model.predict has been answered with an error page.
C10_Witness ==
  \E r \in Req :
    /\ FinishedPost(r)
    /\ ReturnedPage(r)
    /\ req[r].invoked
    /\ "error" \in Keys(r)
    /\ Keys(r) \cap ResultKeys = {}

====
